---- MODULE Spec2Model ----
(***************************************************************************)
(* Model of ruma-identifiers (src/src/lib.rs): the sigil identifier types  *)
(* EventId, RoomId, RoomAliasId, UserId and UserLocalpart, their parser    *)
(* parse_id, their Display implementation and their random generators.     *)
(*                                                                         *)
(* A string is a sequence of characters; a character is a one-character    *)
(* TLA+ string, except WIDE, which stands for U+E000, a character of three *)
(* UTF-8 bytes that the IDNA mapping table disallows in host names.        *)
(***************************************************************************)
EXTENDS Integers, Sequences, FiniteSets, TLC

(***************************************************************************)
(* Bounds of the model: the number of characters a caller types one by one *)
(***************************************************************************)
MaxFree == 5

\* the number of typed characters an id may have when the caller pads it
MaxPadded == 2

\* the number of characters a caller types of a room version
MaxVersionTyped == 2

(***************************************************************************)
(* Program constants.                                                      *)
(***************************************************************************)
MAX_BYTES == 255
MIN_CHARS == 4
SIGIL_BYTES == 1
DEFAULT_PORT == 443
U16_MAX == 2^16 - 1
OPAQUE_ID_LENGTH == 18
USER_LOCALPART_LENGTH == 12
MAX_CODE_POINTS == 32

(***************************************************************************)
(* Characters.                                                             *)
(***************************************************************************)
WIDE == "U+E000"

LowerLetters ==
  <<"a","b","c","d","e","f","g","h","i","j","k","l","m",
    "n","o","p","q","r","s","t","u","v","w","x","y","z">>

UpperLetters ==
  <<"A","B","C","D","E","F","G","H","I","J","K","L","M",
    "N","O","P","Q","R","S","T","U","V","W","X","Y","Z">>

Digits == <<"0","1","2","3","4","5","6","7","8","9">>

Range(f) == {f[i] : i \in DOMAIN f}

Sigils == {"$", "!", "#", "@"}

\* the number of UTF-8 bytes of a character
Width(c) == IF c = WIDE THEN 3 ELSE 1

\* str::len: the number of UTF-8 bytes of a string
ByteLen(s) == Len(s) + 2 * Cardinality({i \in DOMAIN s : Width(s[i]) = 3})

\* the byte offset at which the character after the first j characters starts
ByteOffset(s, j) == ByteLen(SubSeq(s, 1, j))

Min(a, b) == IF a < b THEN a ELSE b

\* str::is_char_boundary
IsCharBoundary(s, b) ==
  \E j \in 0..Min(b, Len(s)) : ByteOffset(s, j) = b

\* the number of characters before byte offset b, a character boundary
CharsBefore(s, b) == CHOOSE j \in 0..Min(b, Len(s)) : ByteOffset(s, j) = b

\* &s[lo..hi] for byte offsets lo <= hi that are both character boundaries
ByteSlice(s, lo, hi) == SubSeq(s, CharsBefore(s, lo) + 1, CharsBefore(s, hi))

\* char::to_lowercase on ASCII, as the IDNA mapping applies it to a host
ToLower(c) ==
  IF c \in Range(UpperLetters)
    THEN LowerLetters[CHOOSE i \in DOMAIN UpperLetters : UpperLetters[i] = c]
    ELSE c

IsDigit(c) == c \in Range(Digits)

DigitValue(c) == (CHOOSE i \in DOMAIN Digits : Digits[i] = c) - 1

\* the value of a non-empty digit string in the given radix, as
\* u32::from_str_radix computes it (without the overflow check)
RECURSIVE RadixValue(_, _)
RadixValue(s, radix) ==
  IF s = <<>> THEN 0
  ELSE RadixValue(SubSeq(s, 1, Len(s) - 1), radix) * radix + DigitValue(s[Len(s)])

\* Display of an unsigned integer: decimal digits, no leading zero
RECURSIVE ToDecimal(_)
ToDecimal(n) ==
  IF n < 10 THEN <<Digits[n + 1]>>
  ELSE ToDecimal(n \div 10) \o <<Digits[(n % 10) + 1]>>

\* the positions of character c in s
Positions(s, c) == {i \in DOMAIN s : s[i] = c}

SetMin(S) == CHOOSE x \in S : \A y \in S : x <= y

\* str::split(c): the pieces of s between the occurrences of c
RECURSIVE Split(_, _)
Split(s, c) ==
  IF Positions(s, c) = {} THEN <<s>>
  ELSE LET p == SetMin(Positions(s, c))
       IN  <<SubSeq(s, 1, p - 1)>> \o Split(SubSeq(s, p + 1, Len(s)), c)

(***************************************************************************)
(* Values.                                                                 *)
(***************************************************************************)
\* url::Host: a domain name or an IPv4 address of four octets (IPv6 literals
\* need '[', which no modelled input contains)
NoHost == [type |-> "None", name |-> <<>>, addr |-> <<>>]
Domain(name) == [type |-> "Domain", name |-> name, addr |-> <<>>]
Ipv4(addr) == [type |-> "Ipv4", name |-> <<>>, addr |-> addr]

Errors ==
  {"InvalidCharacters", "InvalidHost", "MaximumLengthExceeded",
   "MinimumLengthNotSatisfied", "MissingDelimiter", "MissingSigil"}

\* the outcomes of a call: Ok(value), Err(error), or a panic of the thread
Ok(local, host, port) ==
  [tag |-> "Ok", err |-> "", local |-> local, host |-> host, port |-> port]
Err(e) ==
  [tag |-> "Err", err |-> e, local |-> <<>>, host |-> NoHost, port |-> 0]
Panic ==
  [tag |-> "Panic", err |-> "", local |-> <<>>, host |-> NoHost, port |-> 0]
None ==
  [tag |-> "None", err |-> "", local |-> <<>>, host |-> NoHost, port |-> 0]

(***************************************************************************)
(* The host parser: Url::parse("https://" + raw_host), Url::host and       *)
(* Url::port of the url crate, on authorities made of letters, digits,     *)
(* '-', '.', ':' and WIDE.                                                 *)
(***************************************************************************)
\* the characters the IDNA mapping leaves valid in a label, after lowercasing
HostChars == Range(LowerLetters) \cup Range(Digits) \cup {"-", "."}

\* idna::domain_to_ascii: lowercases, rejects disallowed characters and
\* labels that begin or end with '-'
IdnaValid(name) ==
  /\ \A i \in DOMAIN name : name[i] \in HostChars
  /\ \A i \in DOMAIN name :
        name[i] = "-" =>
          /\ i > 1 /\ name[i - 1] # "."
          /\ i < Len(name) /\ name[i + 1] # "."

\* parse_ipv4number: decimal, or octal after a leading 0; -1 when the part is
\* not a number (a part of more than 9 digits is outside the model and is
\* treated as the overflow of u32::from_str_radix)
Ipv4Number(part) ==
  IF part = <<>> \/ Len(part) > 9 \/ \E i \in DOMAIN part : ~IsDigit(part[i])
    THEN -1
  ELSE IF Len(part) >= 2 /\ part[1] = "0"
    THEN IF \E i \in DOMAIN part : part[i] \in {"8", "9"}
           THEN -1
           ELSE RadixValue(part, 8)
  ELSE RadixValue(part, 10)

\* the octets of n, most significant first, in a field of k bytes
RECURSIVE Octets(_, _)
Octets(n, k) ==
  IF k = 0 THEN <<>> ELSE Octets(n \div 256, k - 1) \o <<n % 256>>

\* parse_ipv4addr, after the split: the last number fills the bytes the other
\* numbers leave
Ipv4OfNumbers(nums) ==
  IF nums = <<>> \/ Len(nums) > 4 \/ \E i \in DOMAIN nums : nums[i] = -1
    THEN [kind |-> "none", addr |-> <<>>]
  ELSE IF \/ (Len(nums) > 1 /\ nums[Len(nums)] >= 256 ^ (5 - Len(nums)))
          \/ \E i \in 1..(Len(nums) - 1) : nums[i] > 255
    THEN [kind |-> "err", addr |-> <<>>]
  ELSE [kind |-> "addr",
        addr |-> SubSeq(nums, 1, Len(nums) - 1)
                 \o Octets(nums[Len(nums)], 5 - Len(nums))]

\* parse_ipv4addr, the parts: an empty last part is dropped
Ipv4Parts(all) ==
  IF all[Len(all)] = <<>> THEN SubSeq(all, 1, Len(all) - 1) ELSE all

Ipv4Numbers(parts) == [i \in DOMAIN parts |-> Ipv4Number(parts[i])]

\* parse_ipv4addr: [kind |-> "none"] when the text is not an address,
\* "err" when it is a malformed address, "addr" with the octets otherwise
ParseIpv4Addr(text) ==
  IF text = <<>> THEN [kind |-> "none", addr |-> <<>>]
  ELSE Ipv4OfNumbers(Ipv4Numbers(Ipv4Parts(Split(text, "."))))

\* Host::parse, after the IDNA mapping has lowercased the text
HostOfLowered(lowered, ip) ==
  IF lowered = <<>> \/ ~IdnaValid(lowered) \/ ip.kind = "err"
    THEN [ok |-> FALSE, host |-> NoHost]
  ELSE IF ip.kind = "addr"
    THEN [ok |-> TRUE, host |-> Ipv4(ip.addr)]
  ELSE [ok |-> TRUE, host |-> Domain(lowered)]

Lowered(text) == [i \in DOMAIN text |-> ToLower(text[i])]

\* Host::parse: [ok |-> FALSE] or the parsed host
HostParse(text) == HostOfLowered(Lowered(text), ParseIpv4Addr(Lowered(text)))

\* the digits of a port without its leading zeros
SignificantDigits(text) ==
  IF Positions(text, "0") = DOMAIN text THEN <<>>
  ELSE SubSeq(text, SetMin(DOMAIN text \ Positions(text, "0")), Len(text))

\* Parser::parse_port on digits: the port must fit 16 bits
PortOfDigits(digits) ==
  IF Len(digits) > 5 THEN -2
  ELSE IF RadixValue(digits, 10) > U16_MAX THEN -2
  ELSE RadixValue(digits, 10)

\* the port Url::port returns: -1 (none) for the default port of https
PortOrNone(port) == IF port = DEFAULT_PORT THEN -1 ELSE port

\* Parser::parse_port: -2 on InvalidPort, -1 for no port (no digit, or the
\* default port of https), the port otherwise
PortParse(text) ==
  IF \E i \in DOMAIN text : ~IsDigit(text[i]) THEN -2
  ELSE IF text = <<>> THEN -1
  ELSE PortOrNone(PortOfDigits(SignificantDigits(text)))

UrlResult(h, p) ==
  IF ~h.ok \/ p = -2
    THEN [ok |-> FALSE, host |-> NoHost, port |-> -1]
    ELSE [ok |-> TRUE, host |-> h.host, port |-> p]

\* Url::parse of "https://" followed by raw_host, with Url::host and
\* Url::port: the host is the text before the first ':', the port the text
\* after it
UrlParse(raw_host) ==
  IF Positions(raw_host, ":") = {}
    THEN UrlResult(HostParse(raw_host), -1)
    ELSE UrlResult(
           HostParse(SubSeq(raw_host, 1, SetMin(Positions(raw_host, ":")) - 1)),
           PortParse(SubSeq(raw_host, SetMin(Positions(raw_host, ":")) + 1,
                            Len(raw_host))))

\* Display of url::Host
HostText(host) ==
  IF host.type = "Ipv4"
    THEN ToDecimal(host.addr[1]) \o <<".">> \o ToDecimal(host.addr[2]) \o <<".">>
         \o ToDecimal(host.addr[3]) \o <<".">> \o ToDecimal(host.addr[4])
    ELSE host.name

(***************************************************************************)
(* src/src/lib.rs                                                          *)
(***************************************************************************)
Kinds == {"EventId", "RoomId", "RoomAliasId", "UserId", "UserLocalpart"}
IdKinds == {"EventId", "RoomId", "RoomAliasId", "UserId"}
GeneratedKinds == {"EventId", "RoomId", "UserId", "UserLocalpart"}

\* a variant of the sigils in which room ids carry the sigil of room aliases
SigilOf_shared(kind) ==
  CASE kind = "EventId" -> "$"
    [] kind = "RoomId" -> "#"
    [] kind = "RoomAliasId" -> "#"
    [] kind = "UserId" -> "@"
    [] OTHER -> ""

\* the sigil each Display and TryFrom implementation passes
SigilOf(kind) ==
  CASE kind = "EventId" -> "$"
    [] kind = "RoomId" -> "!"
    [] kind = "RoomAliasId" -> "#"
    [] kind = "UserId" -> "@"
    [] OTHER -> ""

\* the characters of the class [a-z0-9._=-]
LocalpartChars ==
  Range(LowerLetters) \cup Range(Digits) \cup {".", "_", "=", "-"}

\* the pattern with '*' in place of '+': it matches the empty string
USER_LOCALPART_PATTERN_star(s) ==
  \A i \in DOMAIN s : s[i] \in LocalpartChars

\* USER_LOCALPART_PATTERN.is_match: \A[a-z0-9._=-]+\z
USER_LOCALPART_PATTERN(s) ==
  /\ s # <<>>
  /\ \A i \in DOMAIN s : s[i] \in LocalpartChars

\* Rng::gen_ascii_chars: the characters a random local part is drawn from
GenAsciiChars ==
  Range(UpperLetters) \cup Range(LowerLetters) \cup Range(Digits)

\* the characters of the sampled draws
DrawSample == {"a", "Z", "0"}

\* fn generate_localpart: the strings the random generator can return, sampled
\* as j characters of one kind followed by length - j of another
generate_localpart(length) ==
  {[i \in 1..length |-> IF i <= j THEN c1 ELSE c2] :
     c1 \in DrawSample, c2 \in DrawSample, j \in 0..length}

\* a variant of display that renders the port always
display_with_port(sigil, localpart, hostname, port) ==
  <<sigil>> \o localpart \o <<":">> \o HostText(hostname)
    \o <<":">> \o ToDecimal(port)

\* fn display
display(sigil, localpart, hostname, port) ==
  IF port = DEFAULT_PORT
    THEN <<sigil>> \o localpart \o <<":">> \o HostText(hostname)
    ELSE <<sigil>> \o localpart \o <<":">> \o HostText(hostname)
         \o <<":">> \o ToDecimal(port)

\* parse_id, first check: id.len() > MAX_BYTES, with a variant that is off by
\* one
exceeds_max_bytes_inclusive(id) == ByteLen(id) >= MAX_BYTES

exceeds_max_bytes(id) == ByteLen(id) > MAX_BYTES

\* parse_id, the end: the host and the port of the parsed url
parse_id_host(localpart, url) ==
  IF ~url.ok THEN Err("InvalidHost")
  ELSE Ok(localpart, url.host, IF url.port = -1 THEN DEFAULT_PORT ELSE url.port)

\* parse_id, the split at delimiter_index: a slice that does not lie on
\* character boundaries panics
parse_id_split(id, delimiter_index) ==
  IF \/ ~IsCharBoundary(id, 1)
     \/ ~IsCharBoundary(id, delimiter_index)
     \/ ~IsCharBoundary(id, delimiter_index + SIGIL_BYTES)
    THEN Panic
    ELSE parse_id_host(
           ByteSlice(id, 1, delimiter_index),
           UrlParse(ByteSlice(id, delimiter_index + SIGIL_BYTES, ByteLen(id))))

\* fn parse_id; chars.position counts the characters after the sigil from 0
parse_id(required_sigil, id) ==
  IF exceeds_max_bytes(id) THEN Err("MaximumLengthExceeded")
  ELSE IF ByteLen(id) < MIN_CHARS THEN Err("MinimumLengthNotSatisfied")
  ELSE IF id[1] # required_sigil THEN Err("MissingSigil")
  ELSE IF Positions(SubSeq(id, 2, Len(id)), ":") = {} THEN Err("MissingDelimiter")
  ELSE parse_id_split(id, (SetMin(Positions(SubSeq(id, 2, Len(id)), ":")) - 1) + 1)

\* TryFrom<&str> for UserLocalpart
UserLocalpart_try_from(localpart) ==
  IF ~USER_LOCALPART_PATTERN(localpart) THEN Err("InvalidCharacters")
  ELSE Ok(localpart, NoHost, 0)

\* TryFrom<&str> for UserId, after parse_id
UserId_of(parsed) ==
  IF parsed.tag # "Ok" THEN parsed
  ELSE IF UserLocalpart_try_from(parsed.local).tag # "Ok"
    THEN Err("InvalidCharacters")
  ELSE parsed

\* TryFrom<&str> for EventId, RoomAliasId, RoomId and UserId
try_from(kind, id) ==
  IF kind = "UserLocalpart" THEN UserLocalpart_try_from(id)
  ELSE IF kind = "UserId" THEN UserId_of(parse_id(SigilOf(kind), id))
  ELSE parse_id(SigilOf(kind), id)

\* the lengths with the one of UserLocalpart::new taken for the opaque ids
LocalLength_same(kind) == OPAQUE_ID_LENGTH

\* the number of characters each generator asks generate_localpart for
LocalLength(kind) ==
  IF kind \in {"UserId", "UserLocalpart"} THEN USER_LOCALPART_LENGTH
  ELSE OPAQUE_ID_LENGTH

\* UserId::new, after parse_id: the local part is the UserLocalpart built
\* before the candidate, not the slice parse_id returns
UserId_new_of(localpart, parsed) ==
  IF parsed.tag # "Ok" THEN parsed
  ELSE Ok(localpart, parsed.host, parsed.port)

\* EventId::new, RoomId::new, UserId::new and UserLocalpart::new, given the
\* characters generate_localpart drew
new(kind, server_name, chars) ==
  IF kind = "UserLocalpart" THEN Ok(chars, NoHost, 0)
  ELSE IF kind = "UserId"
    THEN UserId_new_of(chars,
           parse_id("@", <<"@">> \o chars \o <<":">> \o server_name))
  ELSE parse_id(SigilOf(kind),
                <<SigilOf(kind)>> \o chars \o <<":">> \o server_name)

\* Display for EventId, RoomAliasId, RoomId, UserId and UserLocalpart
to_string(kind, value) ==
  IF kind = "UserLocalpart" THEN value.local
  ELSE display(SigilOf(kind), value.local, value.host, value.port)

(***************************************************************************)
(* The callers of the library: a caller writes an id string and converts   *)
(* it with try_from, or generates an identifier with new; it may then      *)
(* format the value and parse the text again.                              *)
(***************************************************************************)
VARIABLES input, pc, kind, origin, server, drawn, result, text, reparsed

vars == <<input, pc, kind, origin, server, drawn, result, text, reparsed>>

\* the characters a caller types: the first one, and the following ones
FirstChars == Sigils \cup {"a"}
Alphabet == {":", "a", "A", "0", "-", WIDE}

\* the texts a caller appends whole to end an id
Tokens ==
  { <<"e","x","a","m","p","l","e",".","c","o","m">>,
    <<":","4","4","3">>,
    <<":","5","0","0","0">>,
    <<":","0">>,
    <<":","6","5","5","3","6">>,
    <<":","n","o","t","a","p","o","r","t">> }

\* the server names handed to the generators
ServerNames ==
  { <<>>,
    <<"-">>,
    <<"e","x","a","m","p","l","e",".","c","o","m">>,
    <<"e","x","a","m","p","l","e",".","c","o","m",":","4","4","3">>,
    <<"E","x","a","m","p","l","e",".","c","o","m",":","5","0","0","0">>,
    <<"e","x","a","m","p","l","e",".","c","o","m",":","n","o","t","a","p","o","r","t">> }

Init ==
  /\ input = <<>>
  /\ pc = "typing"
  /\ kind = ""
  /\ origin = ""
  /\ server = <<>>
  /\ drawn = <<>>
  /\ result = None
  /\ text = <<>>
  /\ reparsed = None

\* the caller types one more character of the id
Type ==
  /\ pc = "typing"
  /\ Len(input) < MaxFree
  /\ \E c \in IF input = <<>> THEN FirstChars ELSE Alphabet :
       input' = Append(input, c)
  /\ UNCHANGED <<pc, kind, origin, server, drawn, result, text, reparsed>>

\* the caller ends the id with a host or a port
Paste ==
  /\ pc = "typing"
  /\ \E t \in Tokens : input' = input \o t
  /\ pc' = "sealed"
  /\ UNCHANGED <<kind, origin, server, drawn, result, text, reparsed>>

\* the caller fills the id with one character up to the length limit, or up
\* to one byte more
Pad ==
  /\ pc = "typing"
  /\ Len(input) <= MaxPadded
  /\ \E c \in {"a", WIDE}, n \in {MAX_BYTES, MAX_BYTES + 1} :
       LET count == (n - ByteLen(input)) \div Width(c)
       IN  input' = input \o [i \in 1..count |-> c]
  /\ pc' = "sealed"
  /\ UNCHANGED <<kind, origin, server, drawn, result, text, reparsed>>

\* T::try_from(input)
TryFrom ==
  /\ pc \in {"typing", "sealed"}
  /\ \E k \in Kinds :
       /\ kind' = k
       /\ result' = try_from(k, input)
  /\ origin' = "try_from"
  /\ pc' = "parsed"
  /\ UNCHANGED <<input, server, drawn, text, reparsed>>

\* T::new(server_name), UserLocalpart::new()
New ==
  /\ pc = "typing"
  /\ input = <<>>
  /\ \E k \in GeneratedKinds :
       \E s \in IF k = "UserLocalpart" THEN {<<>>} ELSE ServerNames :
         \E d \in generate_localpart(LocalLength(k)) :
           /\ kind' = k
           /\ server' = s
           /\ drawn' = d
           /\ result' = new(k, s, d)
  /\ origin' = "new"
  /\ pc' = "parsed"
  /\ UNCHANGED <<input, text, reparsed>>

\* value.to_string()
Format ==
  /\ pc = "parsed"
  /\ result.tag = "Ok"
  /\ text' = to_string(kind, result)
  /\ pc' = "shown"
  /\ UNCHANGED <<input, kind, origin, server, drawn, result, reparsed>>

\* T::try_from(&text)
Reparse ==
  /\ pc = "shown"
  /\ reparsed' = try_from(kind, text)
  /\ pc' = "reparsed"
  /\ UNCHANGED <<input, kind, origin, server, drawn, result, text>>

\* Visitor::visit_str of EventIdVisitor, RoomAliasIdVisitor, RoomIdVisitor and
\* UserIdVisitor: every Err of try_from becomes SerdeError::custom("invalid ID")
invalid_id(parsed) == IF parsed.tag = "Err" THEN Err("invalid ID") ELSE parsed

visit_str(k, v) == invalid_id(try_from(k, v))

\* Serialize for EventId, RoomAliasId, RoomId and UserId: the string scalar
\* handed to serialize_str
serialize(k, value) == to_string(k, value)

\* T::deserialize of the string scalar input
Deserialize ==
  /\ pc \in {"typing", "sealed"}
  /\ \E k \in IdKinds :
       /\ kind' = k
       /\ result' = visit_str(k, input)
  /\ origin' = "deserialize"
  /\ pc' = "deserialized"
  /\ UNCHANGED <<input, server, drawn, text, reparsed>>

\* value.serialize(serializer)
Serialize ==
  /\ pc = "parsed"
  /\ kind \in IdKinds
  /\ result.tag = "Ok"
  /\ text' = serialize(kind, result)
  /\ pc' = "serialized"
  /\ UNCHANGED <<input, kind, origin, server, drawn, result, reparsed>>

\* T::deserialize of the serialized scalar
DeserializeText ==
  /\ pc = "serialized"
  /\ reparsed' = visit_str(kind, text)
  /\ pc' = "redeserialized"
  /\ UNCHANGED <<input, kind, origin, server, drawn, result, text>>

Next ==
  \/ Type \/ Paste \/ Pad \/ TryFrom \/ New \/ Format \/ Reparse
  \/ Deserialize \/ Serialize \/ DeserializeText

Spec == Init /\ [][Next]_vars

(***************************************************************************)
(* The vocabulary of the properties, defined on the text of an id and not  *)
(* on the parser: bytes, characters, the part before and after the first   *)
(* ':'.                                                                    *)
(***************************************************************************)
\* the number of UTF-8 bytes of a text: three for each U+E000, one for each
\* ASCII character
Utf8Bytes(s) ==
  3 * Cardinality({i \in 1..Len(s) : s[i] = WIDE})
    + Cardinality({i \in 1..Len(s) : s[i] # WIDE})

HasDelimiter(s) == \E i \in 2..Len(s) : s[i] = ":"

FirstColon(s) == CHOOSE i \in 2..Len(s) : s[i] = ":" /\ \A j \in 2..(i - 1) : s[j] # ":"

\* the characters between the sigil and the first ':'
LocalOf(s) == SubSeq(s, 2, FirstColon(s) - 1)

\* the characters after the first ':'
AuthorityOf(s) == SubSeq(s, FirstColon(s) + 1, Len(s))

\* [a-z0-9._=-]+
InLocalpartClass(s) ==
  /\ Len(s) >= 1
  /\ \A i \in 1..Len(s) :
       s[i] \in {"a","b","c","d","e","f","g","h","i","j","k","l","m","n","o",
                 "p","q","r","s","t","u","v","w","x","y","z","0","1","2","3",
                 "4","5","6","7","8","9",".","_","=","-"}

SameValue(a, b) ==
  /\ a.tag = "Ok" /\ b.tag = "Ok"
  /\ a.local = b.local /\ a.host = b.host /\ a.port = b.port

SameOutcome(a, b) == a.tag = b.tag /\ a.err = b.err

Parsed == pc = "parsed" /\ origin = "try_from"
Generated == pc \in {"parsed", "shown", "reparsed"} /\ origin = "new"

ExampleCom == <<"e","x","a","m","p","l","e",".","c","o","m">>

\* C1: every sigil id that try_from accepts is accepted again after
\* formatting, and the second value equals the first in local part, host and
\* port.
C1_RoundTrip ==
  (pc = "reparsed" /\ origin = "try_from" /\ kind \in IdKinds)
    => SameValue(reparsed, result)

\* C2: every identifier a generator returns is accepted again after
\* formatting, and parses to the value the generator returned.
C2_GeneratedRoundTrip ==
  (pc = "reparsed" /\ origin = "new" /\ kind \in IdKinds)
    => SameValue(reparsed, result)

\* C3: every UserLocalpart, built by try_from or new or held in a UserId,
\* wraps a non-empty string of characters of [a-z0-9._=-].
C3_LocalpartInvariant ==
  (pc # "typing" /\ pc # "sealed" /\ kind \in {"UserId", "UserLocalpart"})
    => /\ result.tag = "Ok" => InLocalpartClass(result.local)
       /\ reparsed.tag = "Ok" => InLocalpartClass(reparsed.local)

\* C4: an input of at most 255 bytes and fewer than 4 characters is rejected
\* by every sigil type with MinimumLengthNotSatisfied.
C4_MinimumInCharacters ==
  (Parsed /\ kind \in IdKinds /\ Utf8Bytes(input) <= 255 /\ Len(input) < 4)
    => result = Err("MinimumLengthNotSatisfied")

\* C5: a sigil type rejects an input with MaximumLengthExceeded exactly when
\* the input has more than 255 UTF-8 bytes, whatever its content.
C5_MaximumInBytes ==
  (Parsed /\ kind \in IdKinds)
    => (Utf8Bytes(input) > 255 <=> result = Err("MaximumLengthExceeded"))

C5_Witness ==
  /\ Parsed /\ kind \in IdKinds
  /\ Utf8Bytes(input) = 256 /\ Len(input) < 255
  /\ result = Err("MaximumLengthExceeded")

\* C6: an input that passes the length, sigil and delimiter checks and whose
\* text after the delimiter the host parser rejects fails with InvalidHost.
C6_HostFailureIsInvalidHost ==
  ( /\ Parsed /\ kind \in IdKinds
    /\ Utf8Bytes(input) <= 255 /\ Len(input) >= 4
    /\ input[1] = SigilOf(kind) /\ HasDelimiter(input)
    /\ ~UrlParse(AuthorityOf(input)).ok )
    => result = Err("InvalidHost")

\* C7: an input without a port parses to port 443, an input ending in an
\* explicit ":443" port parses to the value of the input without it, and the
\* formatted text ends in ":<port>" exactly when the port is not 443.
C7_DefaultPort ==
  /\ ( /\ Parsed /\ kind \in IdKinds /\ result.tag = "Ok"
       /\ HasDelimiter(input) /\ ~HasDelimiter(<<"$">> \o AuthorityOf(input)) )
       => result.port = 443
  /\ ( /\ Parsed /\ kind \in IdKinds /\ result.tag = "Ok"
       /\ Len(input) > 4
       /\ SubSeq(input, Len(input) - 3, Len(input)) = <<":","4","4","3">>
       /\ HasDelimiter(SubSeq(input, 1, Len(input) - 4)) )
       => SameValue(try_from(kind, SubSeq(input, 1, Len(input) - 4)), result)
  /\ (pc = "shown" /\ kind \in IdKinds)
       => LET base == <<SigilOf(kind)>> \o result.local \o <<":">>
                      \o HostText(result.host)
          IN  /\ result.port = 443 => text = base
              /\ result.port # 443
                   => text = base \o <<":">> \o ToDecimal(result.port)

C9_GeneratedShape ==
  (Generated /\ kind \in IdKinds /\ result.tag = "Ok")
    => LET n == IF kind = "UserId" THEN 12 ELSE 18
           authority == IF result.port = 443 THEN HostText(result.host)
                        ELSE HostText(result.host) \o <<":">>
                             \o ToDecimal(result.port)
       IN  /\ Len(result.local) = n
           /\ pc = "shown" =>
                /\ text[1] = SigilOf(kind)
                /\ Len(text) = 1 + n + 1 + Len(authority)
                /\ server = ExampleCom =>
                     Len(text) = IF kind = "UserId" THEN 25 ELSE 31

C9_Witness ==
  /\ pc = "shown" /\ origin = "new" /\ kind = "UserId"
  /\ server = ExampleCom /\ Len(text) = 25
  /\ \E i \in DOMAIN drawn : drawn[i] # drawn[1]

\* C10: a generator returns the outcome that try_from of its type returns on
\* the candidate string sigil + local part + ':' + server name.
C10_GenerateAsParse ==
  (pc = "parsed" /\ origin = "new" /\ kind \in IdKinds)
    => SameOutcome(result,
                   try_from(kind, <<SigilOf(kind)>> \o drawn \o <<":">> \o server))

(***************************************************************************)
(* src/src/room_version_id.rs                                              *)
(***************************************************************************)
\* InnerRoomVersionId
Official(n) == [inner |-> <<"Version", n>>, custom |-> <<>>]
Custom(version) == [inner |-> <<"Custom">>, custom |-> version]
NoVersion == [inner |-> <<>>, custom |-> <<>>]

\* the outcomes of a call that returns a RoomVersionId
RvOk(version) == [tag |-> "Ok", err |-> "", version |-> version]
RvErr(e) == [tag |-> "Err", err |-> e, version |-> NoVersion]
RvNone == [tag |-> "None", err |-> "", version |-> NoVersion]

\* RoomVersionId::version_1 .. version_5
version_N(n) == Official(n)

\* RoomVersionId::custom
custom(id) == Custom(id)

\* a variant of is_custom that takes version 5 for a custom version
is_custom_or_5(v) == v.inner = <<"Custom">> \/ v.inner = <<"Version", 5>>

\* RoomVersionId::is_custom
is_custom(v) == v.inner = <<"Custom">>

\* RoomVersionId::is_official
is_official(v) == ~is_custom(v)

\* RoomVersionId::is_version_1 .. is_version_5
is_version_N(n, v) == v.inner = <<"Version", n>>

\* Display for RoomVersionId
RoomVersionId_to_string(v) ==
  IF v.inner = <<"Custom">> THEN v.custom ELSE <<Digits[v.inner[2] + 1]>>

\* try_from, the length test of a custom version, with a variant that
\* measures it in bytes
exceeds_max_code_points_in_bytes(version) == ByteLen(version) > MAX_CODE_POINTS

exceeds_max_code_points(version) == Len(version) > MAX_CODE_POINTS

\* TryFrom<&str> for RoomVersionId
RoomVersionId_try_from(room_version_id) ==
  IF room_version_id = <<"1">> THEN RvOk(Official(1))
  ELSE IF room_version_id = <<"2">> THEN RvOk(Official(2))
  ELSE IF room_version_id = <<"3">> THEN RvOk(Official(3))
  ELSE IF room_version_id = <<"4">> THEN RvOk(Official(4))
  ELSE IF room_version_id = <<"5">> THEN RvOk(Official(5))
  ELSE IF room_version_id = <<>> THEN RvErr("MinimumLengthNotSatisfied")
  ELSE IF exceeds_max_code_points(room_version_id)
    THEN RvErr("MaximumLengthExceeded")
  ELSE RvOk(Custom(room_version_id))

\* the error every failed deserialization surfaces
InvalidId(parsed) == IF parsed.tag = "Err" THEN RvErr("invalid ID") ELSE parsed

\* Deserialize for RoomVersionId: deserialize_id parses the string scalar
\* with try_from
RoomVersionId_deserialize(scalar) == InvalidId(RoomVersionId_try_from(scalar))

(***************************************************************************)
(* The callers of the room version type: a caller writes a string and      *)
(* converts or deserializes it, or calls a constructor; it may then format *)
(* the value and parse the text again.                                     *)
(***************************************************************************)
VersionAlphabet == {"1", "2", "3", "4", "5", "6", "a", WIDE}

VersionTokens ==
  { <<"i","o",".","r","u","m","a",".","1">>,
    <<"0","1","2","3","4","5","6","7","8","9","0","1","2","3","4","5","6","7",
      "8","9","0","1","2","3","4","5","6","7","8","9","0","1","2","3","4","5",
      "6","7","8","9">> }

VersionOrigins == <<"version_1", "version_2", "version_3", "version_4", "version_5">>

VersionInit ==
  /\ input = <<>>
  /\ pc = "typing"
  /\ kind = "RoomVersionId"
  /\ origin = ""
  /\ server = <<>>
  /\ drawn = <<>>
  /\ result = RvNone
  /\ text = <<>>
  /\ reparsed = RvNone

\* the caller types one more character
VersionType ==
  /\ pc = "typing"
  /\ Len(input) < MaxVersionTyped
  /\ \E c \in VersionAlphabet : input' = Append(input, c)
  /\ UNCHANGED <<pc, kind, origin, server, drawn, result, text, reparsed>>

\* the caller ends the string with a known text
VersionPaste ==
  /\ pc = "typing"
  /\ \E t \in VersionTokens : input' = input \o t
  /\ pc' = "sealed"
  /\ UNCHANGED <<kind, origin, server, drawn, result, text, reparsed>>

\* the caller fills the string with one character up to the limit of code
\* points, or to one more
VersionPad ==
  /\ pc = "typing"
  /\ \E c \in {"a", WIDE}, n \in {MAX_CODE_POINTS, MAX_CODE_POINTS + 1} :
       input' = input \o [i \in 1..(n - Len(input)) |-> c]
  /\ pc' = "sealed"
  /\ UNCHANGED <<kind, origin, server, drawn, result, text, reparsed>>

\* RoomVersionId::try_from(input)
VersionTryFrom ==
  /\ pc \in {"typing", "sealed"}
  /\ result' = RoomVersionId_try_from(input)
  /\ origin' = "try_from"
  /\ pc' = "parsed"
  /\ UNCHANGED <<input, kind, server, drawn, text, reparsed>>

\* the deserialization of the string scalar input
VersionDeserialize ==
  /\ pc \in {"typing", "sealed"}
  /\ result' = RoomVersionId_deserialize(input)
  /\ origin' = "deserialize"
  /\ pc' = "parsed"
  /\ UNCHANGED <<input, kind, server, drawn, text, reparsed>>

\* RoomVersionId::version_1() .. version_5()
VersionConstruct ==
  /\ pc = "typing"
  /\ input = <<>>
  /\ \E n \in 1..5 :
       /\ result' = RvOk(version_N(n))
       /\ origin' = VersionOrigins[n]
  /\ pc' = "parsed"
  /\ UNCHANGED <<input, kind, server, drawn, text, reparsed>>

\* RoomVersionId::custom(input)
VersionCustom ==
  /\ pc \in {"typing", "sealed"}
  /\ result' = RvOk(custom(input))
  /\ origin' = "custom"
  /\ pc' = "parsed"
  /\ UNCHANGED <<input, kind, server, drawn, text, reparsed>>

\* value.to_string()
VersionFormat ==
  /\ pc = "parsed"
  /\ result.tag = "Ok"
  /\ text' = RoomVersionId_to_string(result.version)
  /\ pc' = "shown"
  /\ UNCHANGED <<input, kind, origin, server, drawn, result, reparsed>>

\* RoomVersionId::try_from(&text)
VersionReparse ==
  /\ pc = "shown"
  /\ reparsed' = RoomVersionId_try_from(text)
  /\ pc' = "reparsed"
  /\ UNCHANGED <<input, kind, origin, server, drawn, result, text>>

VersionNext ==
  \/ VersionType \/ VersionPaste \/ VersionPad \/ VersionTryFrom
  \/ VersionDeserialize \/ VersionConstruct \/ VersionCustom
  \/ VersionFormat \/ VersionReparse

VersionSpec == VersionInit /\ [][VersionNext]_vars

(***************************************************************************)
(* Room versions                                                           *)
(***************************************************************************)
OfficialTexts == {<<"1">>, <<"2">>, <<"3">>, <<"4">>, <<"5">>}

\* the state holds a room version that came from origin o
VersionFrom(o) ==
  /\ kind = "RoomVersionId"
  /\ pc \in {"parsed", "shown", "reparsed"}
  /\ origin = o

\* the state holds a room version, whatever built it
VersionHeld ==
  /\ kind = "RoomVersionId"
  /\ pc \in {"parsed", "shown", "reparsed"}
  /\ result.tag = "Ok"

\* C11: RoomVersionId::try_from returns the official tag N for exactly the
\* strings "1" .. "5"; otherwise MinimumLengthNotSatisfied for the empty
\* string; otherwise MaximumLengthExceeded when the string has more than 32
\* code points (not bytes); otherwise Custom(input) with the string
\* unchanged.  32 code points of multi-byte characters succeed, 33 fail.
C11_RoomVersionParse ==
  VersionFrom("try_from") =>
    /\ \A n \in 1..5 :
         (input = <<Digits[n + 1]>>) <=> (result = RvOk(Official(n)))
    /\ (input \notin OfficialTexts /\ input = <<>>) =>
         result = RvErr("MinimumLengthNotSatisfied")
    /\ (input \notin OfficialTexts /\ input # <<>> /\ Len(input) > 32) =>
         result = RvErr("MaximumLengthExceeded")
    /\ (input \notin OfficialTexts /\ input # <<>> /\ Len(input) <= 32) =>
         result = RvOk(Custom(input))

\* a string of 32 code points and more than 32 bytes was accepted
C11_Witness ==
  /\ VersionFrom("try_from")
  /\ Len(input) = 32
  /\ Utf8Bytes(input) > 32
  /\ result = RvOk(Custom(input))

\* C12: exactly one of is_version_1 .. is_version_5, is_custom is true of a
\* room version; is_official is the negation of is_custom; the value parsed
\* from "N" and the value of version_N() satisfy is_version_N; the value
\* parsed from any other accepted string satisfies is_custom.
C12_Classification ==
  VersionHeld =>
    /\ Cardinality({n \in 1..5 : is_version_N(n, result.version)})
         + (IF is_custom(result.version) THEN 1 ELSE 0) = 1
    /\ is_official(result.version) <=> ~is_custom(result.version)
    /\ \A n \in 1..5 :
         /\ (origin = "try_from" /\ input = <<Digits[n + 1]>>) =>
              is_version_N(n, result.version)
         /\ origin = VersionOrigins[n] => is_version_N(n, result.version)
    /\ (origin = "try_from" /\ input \notin OfficialTexts) =>
         is_custom(result.version)

\* version_5() built a value, and it is official
C12_Witness ==
  /\ VersionHeld
  /\ origin = "version_5"
  /\ is_version_N(5, result.version)
  /\ is_official(result.version)

\* C13: every room version obtainable through try_from, deserialization,
\* the version_N constructors and the custom constructor is an official tag
\* or a Custom holding between 1 and 32 code points.
C13_DataModel ==
  VersionHeld =>
    \/ \E n \in 1..5 : result.version = Official(n)
    \/ /\ result.version.inner = <<"Custom">>
       /\ Len(result.version.custom) \in 1..32

\* C14: format(parse(s)) = s for every string s that try_from accepts, and
\* parse(format(v)) succeeds and equals v for every room version v, the
\* values of the custom constructor included.
C14_RoomVersionRoundTrip ==
  /\ (VersionFrom("try_from") /\ pc \in {"shown", "reparsed"}) => text = input
  /\ (VersionHeld /\ pc = "reparsed") => reparsed = result

(***************************************************************************)
(* Sigil ids, continued                                                    *)
(***************************************************************************)
\* C15: for each sigil id type, serializing emits exactly format(value);
\* deserializing a string scalar s succeeds iff parse(s) succeeds, and then
\* yields the value of parse(s); every parse failure surfaces as the same
\* 'invalid ID'; hence deserialize(serialize(v)) = v for every value v that
\* parse produced.
C15_Adapter ==
  /\ pc \in {"serialized", "redeserialized"} => text = to_string(kind, result)
  /\ pc = "deserialized" =>
       /\ result.tag = "Ok" <=> try_from(kind, input).tag = "Ok"
       /\ result.tag = "Ok" => result = try_from(kind, input)
       /\ try_from(kind, input).tag = "Err" => result = Err("invalid ID")
  /\ (pc = "redeserialized" /\ origin = "try_from") => SameValue(reparsed, result)

\* the text after the first ':' of the authority a, the port text
PortTextOf(a) == SubSeq(a, SetMin(Positions(a, ":")) + 1, Len(a))

\* the digits p spell 443, with or without leading zeros
IsDefaultPortText(p) ==
  /\ Len(p) >= 3
  /\ SubSeq(p, Len(p) - 2, Len(p)) = <<"4", "4", "3">>
  /\ \A j \in 1..(Len(p) - 3) : p[j] = "0"

\* the id s spells the default port explicitly
SpellsDefaultPort(s) ==
  /\ HasDelimiter(s)
  /\ Positions(AuthorityOf(s), ":") # {}
  /\ IsDefaultPortText(PortTextOf(AuthorityOf(s)))

\* the state holds the formatted text of a value that try_from accepted
Shown == pc = "shown" /\ origin = "try_from" /\ kind \in IdKinds

\* C16: for an input s that try_from accepts, format(parse(s)) equals s
\* character for character if and only if s does not spell the default port
\* 443 explicitly.
C16_TextualRoundTrip ==
  Shown => ((text = input) <=> ~SpellsDefaultPort(input))

\* C16, amended: for an input s that try_from accepts, if format(parse(s))
\* equals s character for character then s does not spell the default port
\* 443 explicitly.
C16_TextualRoundTripOnlyIf ==
  (Shown /\ text = input) => ~SpellsDefaultPort(input)

\* an input with an explicit port came back character for character
C16_Witness ==
  /\ Shown
  /\ text = input
  /\ result.port = 5000

\* C17: the port of every id that try_from or a generator returns lies in
\* 1..65535; an input whose port text is 0 or out of range is not accepted.
C17_PortRange ==
  (/\ pc \in {"parsed", "shown", "reparsed"}
   /\ origin \in {"try_from", "new"}
   /\ kind \in IdKinds
   /\ result.tag = "Ok") => result.port \in 1..65535

\* C18: try_from splits at the first ':' exactly, also when multi-byte
\* characters stand before it: the local part is the characters between the
\* sigil and the first ':', and the host parser gets the characters after it.
C18_ExactSplit ==
  (Parsed /\ kind \in IdKinds /\ HasDelimiter(input) /\ result.tag # "Err") =>
    /\ result.tag = "Ok"
    /\ result.local = LocalOf(input)
    /\ result = parse_id_host(LocalOf(input), UrlParse(AuthorityOf(input)))

\* C19: try_from is total: for every input it returns an id or one of the six
\* errors, and never aborts.
C19_Total ==
  (Parsed /\ kind \in IdKinds) =>
    \/ result.tag = "Ok"
    \/ result.tag = "Err" /\ result.err \in Errors

\* the error of the first failing check of s, in the order maximum length,
\* minimum length, sigil, delimiter, host, local part; "" when none fails
FirstFailing(k, s) ==
  IF Utf8Bytes(s) > 255 THEN "MaximumLengthExceeded"
  ELSE IF Len(s) < 4 THEN "MinimumLengthNotSatisfied"
  ELSE IF s[1] # SigilOf(k) THEN "MissingSigil"
  ELSE IF ~HasDelimiter(s) THEN "MissingDelimiter"
  ELSE IF ~UrlParse(AuthorityOf(s)).ok THEN "InvalidHost"
  ELSE IF k = "UserId" /\ ~InLocalpartClass(LocalOf(s)) THEN "InvalidCharacters"
  ELSE ""

\* C20: an input that breaks several rules at once gets the error of the
\* first failing check in the order MaximumLengthExceeded,
\* MinimumLengthNotSatisfied, MissingSigil, MissingDelimiter, InvalidHost and,
\* for user ids, InvalidCharacters.
C20_ErrorPrecedence ==
  (Parsed /\ kind \in IdKinds) =>
    IF FirstFailing(kind, input) = ""
      THEN result.tag = "Ok"
      ELSE result = Err(FirstFailing(kind, input))

\* C21: the sigil types are disjoint: no string is accepted by try_from of
\* more than one of EventId, RoomId, RoomAliasId and UserId, and a string that
\* one of them accepts is rejected by each of the other three with
\* MissingSigil.
C21_Disjoint ==
  (Parsed /\ kind \in IdKinds /\ result.tag = "Ok") =>
    \A other \in IdKinds \ {kind} :
      /\ try_from(other, input).tag # "Ok"
      /\ try_from(other, input) = Err("MissingSigil")

\* a room id was accepted, of a string the other three types reject
C21_Witness ==
  /\ Parsed
  /\ kind = "RoomId"
  /\ result.tag = "Ok"
  /\ Utf8Bytes(input) \in 4..255
  /\ \A other \in IdKinds \ {"RoomId"} :
       try_from(other, input) = Err("MissingSigil")

====
